---- MODULE Spec2Model ----
(***************************************************************************)
(* NFLTDBoostCalculator (src/main.py): play aggregation, league averages   *)
(* and the matchup advantage computation.                                  *)
(*                                                                         *)
(* Numbers: every percentage the program rounds to one decimal is kept as  *)
(* an integer number of tenths (35.0% is 350).  round(x, 1) is modelled on *)
(* the exact quotient with ties to even; the theorems that speak of        *)
(* rounding only rely on the result being a nearest tenth.                 *)
(***************************************************************************)
EXTENDS Integers, Sequences, FiniteSets, TLC

VARIABLES df, league_averages, baselines_2024, current_data, raised,
          data_loaded, results, schedule_data, provider_log, environ, response,
          threads

vars == <<df, league_averages, baselines_2024, current_data, raised,
          data_loaded, results, schedule_data, provider_log, environ, response,
          threads>>

\* ------------------------------------------------------------------------
\* Bounds and input domains
\* ------------------------------------------------------------------------

\* largest number of rows of the play-by-play table
MaxPlays == 3

\* pandas NaN / None in a team or drive column
NA == "NA"

\* Python None in a result field; a present number v is <<v>>
None == << >>

Some(v) == <<v>>

\* the empty dict {}
EmptyDict == [k \in {} |-> 0]

\* the (game, drive) possessions a row can belong to; the fourth stands for
\* rows without a possession team (timeouts, end of game)
DriveKeySeq ==
  << [game_id |-> "g1", fixed_drive |-> "d1", posteam |-> "A", defteam |-> "B"],
     [game_id |-> "g1", fixed_drive |-> "d2", posteam |-> "B", defteam |-> "A"],
     [game_id |-> "g2", fixed_drive |-> "d1", posteam |-> "B", defteam |-> "A"],
     [game_id |-> "g1", fixed_drive |-> "d3", posteam |-> NA, defteam |-> NA] >>

\* the team codes of the tables and of the matchups
Teams == {"A", "B"}

YardLines == {15, 50}

Weeks == {18, 19}

PlayRows ==
  { [game_id |-> DriveKeySeq[k].game_id, fixed_drive |-> DriveKeySeq[k].fixed_drive,
     posteam |-> DriveKeySeq[k].posteam, defteam |-> DriveKeySeq[k].defteam,
     yardline_100 |-> y, touchdown |-> t, week |-> w] :
       k \in 1..Len(DriveKeySeq), y \in YardLines, t \in {0, 1}, w \in Weeks }

\* Row order never influences an aggregate (the code only filters and
\* groups), so tables are explored up to row order: rows are appended in
\* non-decreasing rank.
PlayRank(p) ==
  LET k == CHOOSE i \in 1..Len(DriveKeySeq) :
             /\ DriveKeySeq[i].game_id = p.game_id
             /\ DriveKeySeq[i].fixed_drive = p.fixed_drive
  IN  k * 8 + (IF p.yardline_100 <= 20 THEN 4 ELSE 0) + p.touchdown * 2
        + (IF p.week <= 18 THEN 1 ELSE 0)

\* ------------------------------------------------------------------------
\* Arithmetic helpers
\* ------------------------------------------------------------------------

RECURSIVE SumOver(_, _)
\* sum of f[x] over the finite set S
SumOver(S, f) ==
  IF S = {} THEN 0
  ELSE LET x == CHOOSE y \in S : TRUE IN f[x] + SumOver(S \ {x}, f)

MaxOf(S) == CHOOSE m \in S : \A x \in S : x <= m

\* round(n / d) to the nearest integer, ties to even (d > 0)
RoundDiv(n, d) ==
  LET q == n \div d
      r == n % d
  IN  IF 2 * r < d THEN q
      ELSE IF 2 * r > d THEN q + 1
      ELSE IF q % 2 = 0 THEN q ELSE q + 1

\* round(tds / drives * 100, 1) in tenths of a percent
Rate(tds, drives) == RoundDiv(1000 * tds, drives)

\* ------------------------------------------------------------------------
\* Play aggregation (pure functions of a play table t, a sequence of rows;
\* a set of row indices stands for a filtered DataFrame)
\* ------------------------------------------------------------------------

\* df[df['week'] <= 18] if year_label == "2024" else df
RegSeason(t, year_label) ==
  IF year_label = "2024" THEN {i \in DOMAIN t : t[i].week <= 18} ELSE DOMAIN t

\* reg_season[(yardline_100 <= 20) & fixed_drive.notna()]
RzRows(t, rows) ==
  {i \in rows : t[i].yardline_100 <= 20 /\ t[i].fixed_drive # NA}

\* a mis-aggregation that adds the touchdown flags of a drive
DriveOutcomeSum(t, plays) ==
  SumOver(plays, [i \in plays |-> t[i].touchdown])

\* .agg({'touchdown': 'max'}) over the rows of one drive
DriveOutcome(t, plays) == MaxOf({t[i].touchdown : i \in plays})

\* the per-team body shared by the offensive (col = "posteam") and the
\* defensive (col = "defteam") loop: rows of the team, play counts per
\* (game_id, fixed_drive), the 2+ plays filter, one outcome per retained
\* (game_id, team, fixed_drive), then drives and tds
RzTeamSummary(t, rz, col, team) ==
  LET team_rz == {i \in rz : t[i][col] = team}
      keys == {<<t[i].game_id, t[i].fixed_drive>> : i \in team_rz}
      play_counts ==
        [k \in keys |->
           Cardinality({i \in team_rz : <<t[i].game_id, t[i].fixed_drive>> = k})]
      multi_play_drives == {k \in keys : play_counts[k] > 1}
      filtered_drives ==
        {i \in team_rz : <<t[i].game_id, t[i].fixed_drive>> \in multi_play_drives}
      drive_summary ==
        {<<t[i].game_id, t[i][col], t[i].fixed_drive>> : i \in filtered_drives}
      touchdown ==
        [g \in drive_summary |->
           DriveOutcome(t, {i \in filtered_drives :
              <<t[i].game_id, t[i][col], t[i].fixed_drive>> = g})]
  IN  [tds |-> SumOver(drive_summary, touchdown),
       drives |-> Cardinality(drive_summary),
       retained |-> multi_play_drives]

\* offense_results of calculate_rz_stats_with_filter
RzOffenseResults(t, year_label) ==
  LET rz == RzRows(t, RegSeason(t, year_label))
      teams == {team \in {t[i].posteam : i \in rz} :
                  /\ team # NA
                  /\ RzTeamSummary(t, rz, "posteam", team).retained # {}}
  IN  [team \in teams |->
         LET s == RzTeamSummary(t, rz, "posteam", team)
         IN  [rz_drives |-> s.drives, rz_tds |-> s.tds,
              rz_td_rate |-> IF s.drives > 0 THEN Rate(s.tds, s.drives) ELSE 0]]

\* a defensive loop that forgets the 2+ plays filter
RzDefenseResultsUnfiltered(t, year_label) ==
  LET rz == RzRows(t, RegSeason(t, year_label))
      teams == {t[i].defteam : i \in rz} \ {NA}
  IN  [team \in teams |->
         LET team_rz == {i \in rz : t[i].defteam = team}
             groups == {<<t[i].game_id, t[i].defteam, t[i].fixed_drive>> : i \in team_rz}
             touchdown ==
               [g \in groups |->
                  DriveOutcome(t, {i \in team_rz :
                     <<t[i].game_id, t[i].defteam, t[i].fixed_drive>> = g})]
         IN  [rz_drives_faced |-> Cardinality(groups),
              rz_tds_allowed |-> SumOver(groups, touchdown),
              rz_td_allow_rate |-> Rate(SumOver(groups, touchdown), Cardinality(groups))]]

\* defense_results of calculate_rz_stats_with_filter
RzDefenseResults(t, year_label) ==
  LET rz == RzRows(t, RegSeason(t, year_label))
      teams == {team \in {t[i].defteam : i \in rz} :
                  /\ team # NA
                  /\ RzTeamSummary(t, rz, "defteam", team).retained # {}}
  IN  [team \in teams |->
         LET s == RzTeamSummary(t, rz, "defteam", team)
         IN  [rz_drives_faced |-> s.drives, rz_tds_allowed |-> s.tds,
              rz_td_allow_rate |-> IF s.drives > 0 THEN Rate(s.tds, s.drives) ELSE 0]]

\* reg_season.groupby(['game_id', col, 'fixed_drive']).agg({'touchdown': 'max'}):
\* a function from the group keys to the drive outcome; groupby drops the
\* rows with a missing key
AllDrivesGroups(t, rows, col) ==
  LET keyed == {i \in rows : t[i][col] # NA /\ t[i].fixed_drive # NA}
      groups == {<<t[i].game_id, t[i][col], t[i].fixed_drive>> : i \in keyed}
  IN  [g \in groups |->
         DriveOutcome(t, {i \in keyed :
            <<t[i].game_id, t[i][col], t[i].fixed_drive>> = g})]

\* offense_all of calculate_all_drives_stats
AllOffenseResults(t, year_label) ==
  LET all_drives == AllDrivesGroups(t, RegSeason(t, year_label), "posteam")
      teams == {g[2] : g \in DOMAIN all_drives}
  IN  [team \in teams |->
         LET x == {g \in DOMAIN all_drives : g[2] = team}
         IN  [total_drives |-> Cardinality(x),
              total_tds |-> SumOver(x, all_drives),
              total_td_rate |-> Rate(SumOver(x, all_drives), Cardinality(x))]]

\* defense_all of calculate_all_drives_stats
AllDefenseResults(t, year_label) ==
  LET all_drives_def == AllDrivesGroups(t, RegSeason(t, year_label), "defteam")
      teams == {g[2] : g \in DOMAIN all_drives_def}
  IN  [team \in teams |->
         LET x == {g \in DOMAIN all_drives_def : g[2] = team}
         IN  [total_drives_faced |-> Cardinality(x),
              total_tds_allowed |-> SumOver(x, all_drives_def),
              total_td_allow_rate |-> Rate(SumOver(x, all_drives_def), Cardinality(x))]]

\* the list all_rz_drives built by the nested loops of
\* calculate_league_averages; each element carries the loop position that
\* appended it, so the list is a set
AllRzDrives(t) ==
  LET reg_season == {i \in DOMAIN t : t[i].week <= 18}
      rz_drives == RzRows(t, reg_season)
      games == {t[i].game_id : i \in rz_drives}
      TeamsOf(game_id) ==
        {t[i].posteam : i \in {j \in rz_drives : t[j].game_id = game_id}} \ {NA}
      Plays(game_id, col, team, drive_id) ==
        {i \in rz_drives : /\ t[i].game_id = game_id
                           /\ t[i][col] = team
                           /\ t[i].fixed_drive = drive_id}
      DriveIds(game_id, col, team) ==
        {t[i].fixed_drive :
           i \in {j \in rz_drives : t[j].game_id = game_id /\ t[j][col] = team}}
      Side(col, is_offense) ==
        UNION { UNION { { [game_id |-> g, team |-> team, drive_id |-> d,
                           is_offense |-> is_offense,
                           scored_td |-> DriveOutcome(t, Plays(g, col, team, d))] :
                            d \in {dd \in DriveIds(g, col, team) :
                                     Cardinality(Plays(g, col, team, dd)) >= 2} } :
                        team \in TeamsOf(g) } :
                g \in games }
  IN  Side("posteam", TRUE) \cup Side("defteam", FALSE)

\* float NaN, the quotient numpy returns for 0 / 0
NaN == "nan"

\* calculate_league_averages: the KeyError of rz_df['is_offense'] on the
\* column-less frame pd.DataFrame([]) is re-raised; otherwise the four
\* rounded averages
calculate_league_averages(t) ==
  LET all_rz_drives == AllRzDrives(t)
      off == {e \in all_rz_drives : e.is_offense}
      def == {e \in all_rz_drives : ~e.is_offense}
      scored == [e \in all_rz_drives |-> e.scored_td]
      reg_season == {i \in DOMAIN t : t[i].week <= 18}
      all_drives == AllDrivesGroups(t, reg_season, "posteam")
      all_drives_def == AllDrivesGroups(t, reg_season, "defteam")
      Pooled(grp) ==
        IF DOMAIN grp = {} THEN NaN
        ELSE Rate(SumOver(DOMAIN grp, grp), Cardinality(DOMAIN grp))
  IN  IF all_rz_drives = {}
      THEN [raised |-> "KeyError", averages |-> EmptyDict]
      ELSE [raised |-> "none",
            averages |->
              [rz_scoring |-> IF off # {} THEN Rate(SumOver(off, scored), Cardinality(off)) ELSE 0,
               rz_allow |-> IF def # {} THEN Rate(SumOver(def, scored), Cardinality(def)) ELSE 0,
               all_drives_scoring |-> Pooled(all_drives),
               all_drives_allow |-> Pooled(all_drives_def)]]

\* ------------------------------------------------------------------------
\* Aggregation specification: the provider's table is filled row by row,
\* then the aggregation functions are applied to it
\* ------------------------------------------------------------------------

Untouched ==
  /\ DOMAIN league_averages = {}
  /\ DOMAIN baselines_2024 = {}
  /\ DOMAIN current_data = {}
  /\ raised = "none"

\* the names this program reads from and writes to os.environ
EnvNames == {"PERFORMANCE_YEAR", "ANALYSIS_TYPE", "TARGET_WEEK", "TARGET_TEAM"}

\* a freshly constructed calculator; nothing called yet
Constructed ==
  /\ df = << >>
  /\ league_averages = EmptyDict
  /\ baselines_2024 = EmptyDict
  /\ current_data = EmptyDict
  /\ raised = "none"
  /\ data_loaded = FALSE
  /\ results = None
  /\ schedule_data = None
  /\ provider_log = None
  /\ response = None

\* the worker threads of the HTTP server
ThreadIds == {1, 2}

\* a worker thread that is handling no request
IdleThread ==
  [env_vars |-> << >>, original_env |-> << >>, pc |-> "idle", request |-> None,
   seen |-> None, status |-> 0]

Init ==
  /\ Constructed
  /\ environ = [k \in EnvNames |-> None]
  /\ threads = [t \in ThreadIds |-> IdleThread]

\* the play-by-play provider's table gains a row (before any aggregation)
AddPlay(p) ==
  /\ Untouched
  /\ Len(df) < MaxPlays
  /\ Len(df) > 0 => PlayRank(df[Len(df)]) <= PlayRank(p)
  /\ df' = Append(df, p)
  /\ UNCHANGED <<league_averages, baselines_2024, current_data, raised,
                 data_loaded, results, schedule_data, provider_log, environ,
                 response, threads>>

\* self.calculate_league_averages() on the table
CalculateLeagueAverages ==
  /\ DOMAIN league_averages = {}
  /\ raised = "none"
  /\ LET r == calculate_league_averages(df)
     IN  /\ raised' = r.raised
         /\ league_averages' = r.averages
  /\ UNCHANGED <<df, baselines_2024, current_data, data_loaded, results,
                 schedule_data, provider_log, environ, response, threads>>

\* the baseline stage of load_data: both aggregations with label "2024"
AggregateBaseline ==
  /\ DOMAIN baselines_2024 = {}
  /\ baselines_2024' =
       [offense_rz |-> RzOffenseResults(df, "2024"),
        defense_rz |-> RzDefenseResults(df, "2024"),
        offense_all |-> AllOffenseResults(df, "2024"),
        defense_all |-> AllDefenseResults(df, "2024")]
  /\ UNCHANGED <<df, league_averages, current_data, raised, data_loaded, results,
                 schedule_data, provider_log, environ, response, threads>>

\* the current-season stage of load_data: both aggregations with the label
\* of the performance year
AggregateCurrent ==
  /\ DOMAIN current_data = {}
  /\ current_data' =
       [offense_rz |-> RzOffenseResults(df, "2025"),
        defense_rz |-> RzDefenseResults(df, "2025"),
        offense_all |-> AllOffenseResults(df, "2025"),
        defense_all |-> AllDefenseResults(df, "2025")]
  /\ UNCHANGED <<df, league_averages, baselines_2024, raised, data_loaded, results,
                 schedule_data, provider_log, environ, response, threads>>

NextAgg ==
  \/ \E p \in PlayRows : AddPlay(p)
  \/ CalculateLeagueAverages
  \/ AggregateBaseline
  \/ AggregateCurrent

SpecAgg == Init /\ [][NextAgg]_vars

\* ------------------------------------------------------------------------
\* Reference notions used by the aggregation properties
\* ------------------------------------------------------------------------

\* the red-zone (game, offense, defense, drive) groups of the table's rows
\* with a team code, under the week filter of the label, with the number
\* of their red-zone plays
RzGroupPlays(t, year_label, g) ==
  {i \in RegSeason(t, year_label) :
     /\ t[i].yardline_100 <= 20
     /\ <<t[i].game_id, t[i].posteam, t[i].defteam, t[i].fixed_drive>> = g}

RzGroups(t, year_label) ==
  {<<t[i].game_id, t[i].posteam, t[i].defteam, t[i].fixed_drive>> :
     i \in {j \in RegSeason(t, year_label) :
              t[j].yardline_100 <= 20 /\ t[j].posteam # NA /\ t[j].defteam # NA}}

QualifyingRzGroups(t, year_label) ==
  {g \in RzGroups(t, year_label) : Cardinality(RzGroupPlays(t, year_label, g)) >= 2}

\* 100 x sum of a count over the sum of another over the teams of a
\* per-team record, in tenths, 0 when there is no drive
PooledOf(d, tdsField, drivesField) ==
  LET tds == SumOver(DOMAIN d, [k \in DOMAIN d |-> d[k][tdsField]])
      drives == SumOver(DOMAIN d, [k \in DOMAIN d |-> d[k][drivesField]])
  IN  IF drives = 0 THEN 0 ELSE Rate(tds, drives)

LeagueComputed == DOMAIN league_averages # {}

\* C4: each league average is the pooled rate of all qualifying week<=18
\* drives; rz_allow is the pooled total of the per-team defense_rz baseline
\* (and likewise for the three other families).
C4_LeagueAveragesPooled ==
  LeagueComputed =>
    /\ league_averages.rz_scoring =
         PooledOf(RzOffenseResults(df, "2024"), "rz_tds", "rz_drives")
    /\ league_averages.rz_allow =
         PooledOf(RzDefenseResults(df, "2024"), "rz_tds_allowed", "rz_drives_faced")
    /\ league_averages.all_drives_scoring =
         PooledOf(AllOffenseResults(df, "2024"), "total_tds", "total_drives")
    /\ league_averages.all_drives_allow =
         PooledOf(AllDefenseResults(df, "2024"), "total_tds_allowed", "total_drives_faced")

\* the number a per-team record holds for a team, 0 for an omitted team
CountOf(d, team, field) == IF team \in DOMAIN d THEN d[team][field] ELSE 0

\* C5: a red-zone (game, team, drive) group with fewer than 2 red-zone plays
\* is counted nowhere, and a group with 2 or more is counted as exactly one
\* drive for its offense and one for its defense, in the per-team red-zone
\* statistics and in the red-zone entries of the league averages.
C5_TwoPlayFilterBothSides ==
  /\ DOMAIN baselines_2024 # {} =>
       \A team \in Teams :
         /\ CountOf(baselines_2024.offense_rz, team, "rz_drives") =
              Cardinality({g \in QualifyingRzGroups(df, "2024") : g[2] = team})
         /\ CountOf(baselines_2024.defense_rz, team, "rz_drives_faced") =
              Cardinality({g \in QualifyingRzGroups(df, "2024") : g[3] = team})
  /\ LeagueComputed =>
       /\ Cardinality({e \in AllRzDrives(df) : e.is_offense}) =
            Cardinality(QualifyingRzGroups(df, "2024"))
       /\ Cardinality({e \in AllRzDrives(df) : ~e.is_offense}) =
            Cardinality(QualifyingRzGroups(df, "2024"))

\* the retained drives of a family for a team: the qualifying red-zone
\* groups, or all (game, team, drive) groups, by offense (pos = 2) or
\* defense (pos = 3)
AllGroups(t, year_label) ==
  {<<t[i].game_id, t[i].posteam, t[i].defteam, t[i].fixed_drive>> :
     i \in {j \in RegSeason(t, year_label) : t[j].posteam # NA /\ t[j].defteam # NA}}

AllGroupPlays(t, year_label, g) ==
  {i \in RegSeason(t, year_label) :
     <<t[i].game_id, t[i].posteam, t[i].defteam, t[i].fixed_drive>> = g}

\* one family of a snapshot respects the drive outcome rule
FamilyOutcomesOk(d, tdsField, drivesField, rateField, groups, pos, year_label, rzOnly) ==
  \A team \in DOMAIN d :
    LET mine == {g \in groups : g[pos] = team}
        scoring ==
          {g \in mine :
             \E i \in (IF rzOnly THEN RzGroupPlays(df, year_label, g)
                       ELSE AllGroupPlays(df, year_label, g)) : df[i].touchdown = 1}
    IN  /\ d[team][drivesField] = Cardinality(mine)
        /\ d[team][tdsField] = Cardinality(scoring)
        /\ d[team][tdsField] <= d[team][drivesField]
        /\ d[team][rateField] >= 0
        /\ d[team][rateField] <= 1000

SnapshotOutcomesOk(snap, year_label) ==
  /\ FamilyOutcomesOk(snap.offense_rz, "rz_tds", "rz_drives", "rz_td_rate",
                      QualifyingRzGroups(df, year_label), 2, year_label, TRUE)
  /\ FamilyOutcomesOk(snap.defense_rz, "rz_tds_allowed", "rz_drives_faced",
                      "rz_td_allow_rate",
                      QualifyingRzGroups(df, year_label), 3, year_label, TRUE)
  /\ FamilyOutcomesOk(snap.offense_all, "total_tds", "total_drives", "total_td_rate",
                      AllGroups(df, year_label), 2, year_label, FALSE)
  /\ FamilyOutcomesOk(snap.defense_all, "total_tds_allowed", "total_drives_faced",
                      "total_td_allow_rate",
                      AllGroups(df, year_label), 3, year_label, FALSE)

\* C6: with touchdown flags in {0,1}, every retained drive counts as one
\* drive and as one touchdown exactly when one of its plays has the flag
\* set (the maximum of the flags), so touchdowns never exceed drives and
\* every per-team rate lies in [0, 100], in red-zone and all-drives mode.
C6_DriveOutcomeIsMaxFlag ==
  /\ DOMAIN baselines_2024 # {} => SnapshotOutcomesOk(baselines_2024, "2024")
  /\ DOMAIN current_data # {} => SnapshotOutcomesOk(current_data, "2025")

\* a drive of A with a scoring and a non-scoring red-zone play was counted
C6_Witness ==
  /\ DOMAIN current_data # {}
  /\ "A" \in DOMAIN current_data.offense_rz
  /\ current_data.offense_rz["A"].rz_tds = 1
  /\ \E i, j \in DOMAIN df :
       /\ df[i].posteam = "A" /\ df[j].posteam = "A"
       /\ df[i].yardline_100 <= 20 /\ df[j].yardline_100 <= 20
       /\ df[i].touchdown = 1 /\ df[j].touchdown = 0

\* C10: calculate_league_averages never raises; a family without qualifying
\* drives has league average 0.0 and the other families are computed.
C10_LeagueAveragesNeverRaise ==
  /\ raised = "none"
  /\ LeagueComputed =>
       /\ QualifyingRzGroups(df, "2024") = {} =>
            league_averages.rz_scoring = 0 /\ league_averages.rz_allow = 0
       /\ AllGroups(df, "2024") = {} =>
            league_averages.all_drives_scoring = 0 /\ league_averages.all_drives_allow = 0

\* ------------------------------------------------------------------------
\* Matchup advantage (calculate_matchup_boosts)
\* ------------------------------------------------------------------------

\* a deviation taken as percentage points instead of a percentage of the
\* league average
PctChangePoints(current_rate, league_avg) ==
  IF league_avg > 0 THEN current_rate - league_avg ELSE 0

\* round(((current - league_avg) / league_avg * 100) if league_avg > 0
\*       else 0, 1), in tenths
PctChange(current_rate, league_avg) ==
  IF league_avg > 0
  THEN RoundDiv(1000 * (current_rate - league_avg), league_avg)
  ELSE 0

\* a lookup that zero-fills a team without an entry
FamilyPctChangeZeroFill(family, team, rateField, league_avg) ==
  IF team \in DOMAIN family
  THEN Some(PctChange(family[team][rateField], league_avg))
  ELSE Some(0)

\* one family block: the membership test, the lookup and the deviation, or
\* None for a team without an entry
FamilyPctChange(family, team, rateField, league_avg) ==
  IF team \in DOMAIN family
  THEN Some(PctChange(family[team][rateField], league_avg))
  ELSE None

\* the current rate stored next to a deviation (key absent: None)
FamilyCurrentRate(family, team, rateField) ==
  IF team \in DOMAIN family THEN Some(family[team][rateField]) ELSE None

\* offense_combined_pct_change
offense_combined_pct_change(off_rz_pct, off_all_pct) ==
  IF off_rz_pct # None /\ off_all_pct # None
  THEN Some(RoundDiv(off_rz_pct[1] + off_all_pct[1], 2))
  ELSE IF off_rz_pct # None THEN off_rz_pct
  ELSE IF off_all_pct # None THEN off_all_pct
  ELSE None

\* a defense combination with the sign flipped
defense_combined_negated(def_rz_pct, def_all_pct) ==
  IF def_rz_pct # None /\ def_all_pct # None
  THEN Some(0 - RoundDiv(def_rz_pct[1] + def_all_pct[1], 2))
  ELSE IF def_rz_pct # None THEN Some(0 - def_rz_pct[1])
  ELSE IF def_all_pct # None THEN Some(0 - def_all_pct[1])
  ELSE None

\* defense_combined_pct_change
defense_combined_pct_change(def_rz_pct, def_all_pct) ==
  IF def_rz_pct # None /\ def_all_pct # None
  THEN Some(RoundDiv(def_rz_pct[1] + def_all_pct[1], 2))
  ELSE IF def_rz_pct # None THEN def_rz_pct
  ELSE IF def_all_pct # None THEN def_all_pct
  ELSE None

\* total_team_td_advantage_pct
total_team_td_advantage_pct(off_combined, def_combined) ==
  IF off_combined # None /\ def_combined # None
  THEN Some(RoundDiv(off_combined[1] + def_combined[1], 2))
  ELSE IF off_combined # None THEN Some(RoundDiv(off_combined[1], 2))
  ELSE IF def_combined # None THEN Some(RoundDiv(def_combined[1], 2))
  ELSE None

\* the body of calculate_matchup_boosts once the data is loaded
matchup_boosts(la, cd, offense_team, defense_team) ==
  LET off_rz == FamilyPctChange(cd.offense_rz, offense_team, "rz_td_rate",
                                la.rz_scoring)
      def_rz == FamilyPctChange(cd.defense_rz, defense_team, "rz_td_allow_rate",
                                la.rz_allow)
      off_all == FamilyPctChange(cd.offense_all, offense_team, "total_td_rate",
                                 la.all_drives_scoring)
      def_all == FamilyPctChange(cd.defense_all, defense_team, "total_td_allow_rate",
                                 la.all_drives_allow)
      off_combined == offense_combined_pct_change(off_rz, off_all)
      def_combined == defense_combined_pct_change(def_rz, def_all)
  IN  [all_drives |->
         [offense_all_drives_pct_change_vs_league |-> off_all,
          offense_current_all_drives_td_rate |->
            FamilyCurrentRate(cd.offense_all, offense_team, "total_td_rate"),
          defense_all_drives_pct_change_vs_league |-> def_all,
          defense_current_all_drives_allow_rate |->
            FamilyCurrentRate(cd.defense_all, defense_team, "total_td_allow_rate")],
       offense_team |-> offense_team,
       defense_team |-> defense_team,
       error |-> None,
       red_zone |->
         [offense_rz_pct_change_vs_league |-> off_rz,
          offense_current_rz_td_rate |->
            FamilyCurrentRate(cd.offense_rz, offense_team, "rz_td_rate"),
          note |-> IF offense_team \in DOMAIN cd.offense_rz THEN None
                   ELSE Some([team |-> offense_team, data |-> "RZ"]),
          defense_rz_pct_change_vs_league |-> def_rz,
          defense_current_rz_allow_rate |->
            FamilyCurrentRate(cd.defense_rz, defense_team, "rz_td_allow_rate")],
       combined_team_analysis |->
         [offense_combined_pct_change |-> off_combined,
          defense_combined_pct_change |-> def_combined,
          total_team_td_advantage_pct |->
            total_team_td_advantage_pct(off_combined, def_combined)]]

\* the dict returned by the except clause of calculate_matchup_boosts
matchup_error(offense_team, defense_team) ==
  [offense_team |-> offense_team,
   defense_team |-> defense_team,
   error |-> Some("Analysis failed")]

\* ------------------------------------------------------------------------
\* The schedule provider and load_schedule
\* ------------------------------------------------------------------------

\* a schedule row; gameday counts days from today (negative: already played)
Game(week, away_team, home_team, gameday) ==
  [week |-> week, away_team |-> away_team, home_team |-> home_team,
   gameday |-> gameday]

\* what one call of nfl.import_schedules may do: raise, or return a table
\* (the empty one included)
ProviderRaises == [games |-> << >>, raises |-> TRUE]

ProviderReturns(games) == [games |-> games, raises |-> FALSE]

\* load_schedule against one provider outcome: the table is stored before
\* the emptiness test, an exception stores None; neither is raised further
load_schedule(outcome) ==
  IF outcome.raises
  THEN [schedule_data |-> None, returned |-> FALSE]
  ELSE [schedule_data |-> Some(outcome.games),
        returned |-> (outcome.games # << >>)]

\* ------------------------------------------------------------------------
\* What load_data can leave behind.  The tables come from the external
\* provider; their aggregation is the subject of SpecAgg, here the
\* aggregated values are the inputs.
\* ------------------------------------------------------------------------

\* (tds, drives) of the per-team entries a loaded snapshot may hold, for the
\* red-zone and for the all-drives families
RzEntryInputs == {<<1, 2>>, <<9, 25>>}

AllEntryInputs == {<<1, 2>>, <<6, 25>>}

\* league averages a load may compute: every family positive, every family
\* 0.0, and the two mixed cases
LeagueAverageInputs ==
  {[rz_scoring |-> 300, rz_allow |-> 300,
    all_drives_scoring |-> 200, all_drives_allow |-> 200],
   [rz_scoring |-> 0, rz_allow |-> 0,
    all_drives_scoring |-> 0, all_drives_allow |-> 0],
   [rz_scoring |-> 300, rz_allow |-> 0,
    all_drives_scoring |-> 200, all_drives_allow |-> 0],
   [rz_scoring |-> 0, rz_allow |-> 300,
    all_drives_scoring |-> 0, all_drives_allow |-> 200]}

\* the dicts over any subset of the teams with entries of the given set
FamilyInputs(entries) ==
  UNION {[S -> entries] : S \in SUBSET Teams}

SnapshotInputs ==
  [offense_rz :
     FamilyInputs({[rz_drives |-> e[2], rz_tds |-> e[1],
                    rz_td_rate |-> Rate(e[1], e[2])] : e \in RzEntryInputs}),
   defense_rz :
     FamilyInputs({[rz_drives_faced |-> e[2], rz_tds_allowed |-> e[1],
                    rz_td_allow_rate |-> Rate(e[1], e[2])] : e \in RzEntryInputs}),
   offense_all :
     FamilyInputs({[total_drives |-> e[2], total_tds |-> e[1],
                    total_td_rate |-> Rate(e[1], e[2])] : e \in AllEntryInputs}),
   defense_all :
     FamilyInputs({[total_drives_faced |-> e[2], total_tds_allowed |-> e[1],
                    total_td_allow_rate |-> Rate(e[1], e[2])] : e \in AllEntryInputs})]

\* the baseline per-team records are read by get_team_summary only
BaselineInputs ==
  {[offense_rz |-> EmptyDict, defense_rz |-> EmptyDict,
    offense_all |-> EmptyDict, defense_all |-> EmptyDict]}

\* load_data: it raises in calculate_league_averages (nothing assigned), on
\* an empty baseline table (league averages assigned), on an empty current
\* table (baselines assigned too), or returns with everything assigned
\* the stages run in order; load_schedule is the last one and never raises
load_data_from(la_inputs, bl_inputs, cd_inputs, schedule_inputs) ==
  {[league_averages |-> league_averages, baselines_2024 |-> baselines_2024,
    current_data |-> current_data, raised |-> TRUE,
    schedule_data |-> schedule_data, schedule_fetches |-> << >>]}
  \cup
  {[league_averages |-> la, baselines_2024 |-> baselines_2024,
    current_data |-> current_data, raised |-> TRUE,
    schedule_data |-> schedule_data, schedule_fetches |-> << >>] :
      la \in la_inputs}
  \cup
  {[league_averages |-> la, baselines_2024 |-> bl,
    current_data |-> current_data, raised |-> TRUE,
    schedule_data |-> schedule_data, schedule_fetches |-> << >>] :
      la \in la_inputs, bl \in bl_inputs}
  \cup
  {[league_averages |-> la, baselines_2024 |-> bl,
    current_data |-> cd, raised |-> FALSE,
    schedule_data |-> load_schedule(sc).schedule_data,
    schedule_fetches |-> <<sc>>] :
      la \in la_inputs, bl \in bl_inputs, cd \in cd_inputs,
      sc \in schedule_inputs}

\* the loads calculate_matchup_boosts is analysed under: every snapshot, with
\* the schedule provider down
load_data ==
  load_data_from(LeagueAverageInputs, BaselineInputs, SnapshotInputs,
                 {ProviderRaises})

\* calculate_matchup_boosts(offense_team, defense_team)
CalculateMatchupBoostsOn(loads, offense_team, defense_team) ==
  /\ UNCHANGED <<df, raised, environ, response, threads>>
  /\ provider_log' = None
  /\ IF ~data_loaded
     THEN \E o \in loads :
            /\ league_averages' = o.league_averages
            /\ baselines_2024' = o.baselines_2024
            /\ current_data' = o.current_data
            /\ schedule_data' = o.schedule_data
            /\ IF o.raised
               THEN /\ data_loaded' = FALSE
                    /\ results' = matchup_error(offense_team, defense_team)
               ELSE /\ data_loaded' = TRUE
                    /\ results' = matchup_boosts(o.league_averages, o.current_data,
                                                 offense_team, defense_team)
     ELSE /\ results' = matchup_boosts(league_averages, current_data,
                                       offense_team, defense_team)
          /\ UNCHANGED <<league_averages, baselines_2024, current_data, data_loaded,
                         schedule_data>>

CalculateMatchupBoosts(offense_team, defense_team) ==
  CalculateMatchupBoostsOn(load_data, offense_team, defense_team)

NextBoost == \E o \in Teams, d \in Teams : CalculateMatchupBoosts(o, d)

SpecBoost == Init /\ [][NextBoost]_vars

\* ------------------------------------------------------------------------
\* Week resolution: get_current_week and get_week_matchups
\* ------------------------------------------------------------------------

\* what one call of nfl.import_pbp_data may do for get_current_week: raise,
\* or return a table whose highest week is max_week (0: the empty table)
PbpRaises == [raises |-> TRUE, max_week |-> 0]

PbpReturns(max_week) == [raises |-> FALSE, max_week |-> max_week]

\* schedule_data[gameday.dt.date >= today]: the indices of the future games
FutureGames(games) == {i \in DOMAIN games : games[i].gameday >= 0}

\* .sort_values('gameday').iloc[0]: the earliest future game (the first of
\* the table among equals)
NextGame(games) ==
  LET fut == FutureGames(games)
      first == CHOOSE i \in fut :
                 \A j \in fut : \/ games[i].gameday < games[j].gameday
                                \/ (games[i].gameday = games[j].gameday /\ i <= j)
  IN  games[first]

\* get_current_week: the play-by-play fetch comes first and every exception
\* ends in the default; on an empty schedule frame the gameday column has
\* no datetime accessor, which raises too
get_current_week(sd, pbp) ==
  IF pbp.raises THEN 2
  ELSE IF sd # None /\ sd[1] = << >> THEN 2
  ELSE IF sd # None /\ FutureGames(sd[1]) # {} THEN NextGame(sd[1]).week
  ELSE pbp.max_week + 1

\* get_week_matchups(week_num) on schedule sd; schedule is what the provider
\* does if load_schedule is called, pbp what it does for get_current_week
get_week_matchups(sd, week_num, schedule, pbp) ==
  LET reload == (sd = None)
      loaded == IF reload THEN load_schedule(schedule)
                ELSE [schedule_data |-> sd, returned |-> TRUE]
      fetches == IF reload THEN <<schedule>> ELSE << >>
  IN  IF ~loaded.returned
      THEN [schedule_data |-> loaded.schedule_data, schedule_fetches |-> fetches,
            matchups |-> << >>, pbp_fetches |-> << >>]
      ELSE LET ask == (week_num = None)
               week == IF ask THEN get_current_week(loaded.schedule_data, pbp)
                       ELSE week_num[1]
               games == loaded.schedule_data[1]
           IN  [schedule_data |-> loaded.schedule_data,
                schedule_fetches |-> fetches,
                matchups |-> SelectSeq(games, LAMBDA g : g.week = week),
                pbp_fetches |-> IF ask THEN <<pbp>> ELSE << >>]

\* week_num or self.get_current_week(); 0 is falsy like None
week_or_current(sd, week_num, pbp) ==
  IF week_num = None \/ week_num = Some(0)
  THEN [week |-> Some(get_current_week(sd, pbp)), pbp_fetches |-> <<pbp>>]
  ELSE [week |-> week_num, pbp_fetches |-> << >>]

\* ------------------------------------------------------------------------
\* analyze_week_matchups and get_team_summary
\* ------------------------------------------------------------------------

\* the -999 of get_sort_key, in tenths
SortFloor == -9990

\* x or -999: None and 0.0 are both falsy
OrFloor(adv) == IF adv = None \/ adv = Some(0) THEN SortFloor ELSE adv[1]

\* .get('combined_team_analysis', {}).get('total_team_td_advantage_pct', -999)
\* of one analysis; the error dict has no combined_team_analysis
AdvantageOrDefault(analysis) ==
  IF analysis.error # None THEN Some(SortFloor)
  ELSE analysis.combined_team_analysis.total_team_td_advantage_pct

get_sort_key(game) ==
  LET away_adv == AdvantageOrDefault(game.away_offense_vs_home_defense)
      home_adv == AdvantageOrDefault(game.home_offense_vs_away_defense)
  IN  MaxOf({OrFloor(away_adv), OrFloor(home_adv)})

\* list.sort(key=get_sort_key, reverse=True): descending and stable
RECURSIVE SortGames(_)
SortGames(games) ==
  IF games = << >> THEN << >>
  ELSE LET g == Head(games)
           rest == SortGames(Tail(games))
           above == Cardinality({i \in DOMAIN rest :
                                   get_sort_key(rest[i]) > get_sort_key(g)})
       IN  SubSeq(rest, 1, above) \o <<g>> \o SubSeq(rest, above + 1, Len(rest))

\* calculate_matchup_boosts on loaded data; fails: an exception is raised
\* inside its try body, which its own except clause turns into the error dict
calculate_matchup_boosts(la, cd, offense_team, defense_team, fails) ==
  IF fails THEN matchup_error(offense_team, defense_team)
  ELSE matchup_boosts(la, cd, offense_team, defense_team)

\* one pass of the loop over the matchups; faults holds <<i, side>> for the
\* analyses of game i that fail.  Both calls return a dict on every path,
\* so the loop's except clause is never entered and every game is appended
game_result(la, cd, matchup, i, faults) ==
  [week |-> matchup.week,
   away_team |-> matchup.away_team,
   home_team |-> matchup.home_team,
   gameday |-> matchup.gameday,
   game |-> <<matchup.away_team, "@", matchup.home_team>>,
   away_offense_vs_home_defense |->
     calculate_matchup_boosts(la, cd, matchup.away_team, matchup.home_team,
                              <<i, "away">> \in faults),
   home_offense_vs_away_defense |->
     calculate_matchup_boosts(la, cd, matchup.home_team, matchup.away_team,
                              <<i, "home">> \in faults)]

\* analyze_week_matchups after the lazy load
analyze_week_matchups(la, cd, sd, week_num, schedule, pbp, pbp_again, faults) ==
  LET found == get_week_matchups(sd, week_num, schedule, pbp)
      matchups == found.matchups
      week == week_or_current(found.schedule_data, week_num, pbp_again)
      fetched == [schedule_data |-> found.schedule_data,
                  schedule_fetches |-> found.schedule_fetches,
                  pbp_fetches |-> found.pbp_fetches \o week.pbp_fetches]
  IN  IF matchups = << >>
      THEN [results |-> [week |-> week.week, error |-> Some("No matchups found")]]
           @@ fetched
      ELSE [results |->
              [week |-> week.week,
               games |-> SortGames([i \in DOMAIN matchups |->
                           game_result(la, cd, matchups[i], i, faults)]),
               error |-> None,
               performance_year |-> 2025]]
           @@ fetched

\* the dict of the outer except clause of analyze_week_matchups
week_error(week_num) ==
  [week |-> week_num, error |-> Some("Week analysis failed")]

\* one of the four blocks of get_team_summary; nothing is added unless the
\* team is in the current and in the baseline family
SummaryBlock(current, baseline, team, rate, change, now, then) ==
  IF team \in DOMAIN current /\ team \in DOMAIN baseline
  THEN (change :> (current[team][rate] - baseline[team][rate]))
       @@ (now :> current[team][rate]) @@ (then :> baseline[team][rate])
  ELSE EmptyDict

\* get_team_summary after the lazy load
get_team_summary(cd, bl, team) ==
  [team |-> team,
   error |-> None,
   performance_year |-> 2025,
   offense |->
     SummaryBlock(cd.offense_rz, bl.offense_rz, team, "rz_td_rate",
                  "rz_improvement", "rz_2025", "rz_2024")
     @@ SummaryBlock(cd.offense_all, bl.offense_all, team, "total_td_rate",
                     "all_drives_improvement", "all_drives_2025", "all_drives_2024"),
   defense |->
     SummaryBlock(cd.defense_rz, bl.defense_rz, team, "rz_td_allow_rate",
                  "rz_change", "rz_2025", "rz_2024")
     @@ SummaryBlock(cd.defense_all, bl.defense_all, team, "total_td_allow_rate",
                     "all_drives_change", "all_drives_2025", "all_drives_2024")]

\* the dict of the except clause of get_team_summary
summary_error(team) == [team |-> team, error |-> Some("Summary failed")]

\* ------------------------------------------------------------------------
\* One calculator over a week: the inputs the providers may deliver and the
\* public methods as actions
\* ------------------------------------------------------------------------

WeekTeams == {"A", "B", "C", "D"}

\* (tds, drives) of a team at, below and above the league average
RzLevel(level) ==
  CASE level = "avg" -> <<3, 10>> [] level = "low" -> <<0, 10>>
    [] level = "high" -> <<9, 25>>

AllLevel(level) ==
  CASE level = "avg" -> <<2, 10>> [] level = "low" -> <<0, 10>>
    [] level = "high" -> <<6, 25>>

Profile(present, off, def) == [off |-> off, def |-> def, present |-> present]

\* the forms a team may be in; an absent team has no entry in any family
WeekProfiles(team) ==
  CASE team = "A" -> {Profile(FALSE, "avg", "avg"), Profile(TRUE, "avg", "avg")}
    [] team = "B" -> {Profile(FALSE, "avg", "avg"), Profile(TRUE, "low", "avg")}
    [] team = "C" -> {Profile(TRUE, "low", "avg"), Profile(TRUE, "avg", "high")}
    [] team = "D" -> {Profile(TRUE, "low", "high"), Profile(TRUE, "avg", "avg")}

\* the four per-team dicts of the teams in the given forms
WeekSnapshot(pf) ==
  LET present == {t \in DOMAIN pf : pf[t].present}
  IN  [offense_rz |->
         [t \in present |->
            LET e == RzLevel(pf[t].off)
            IN  [rz_drives |-> e[2], rz_tds |-> e[1],
                 rz_td_rate |-> Rate(e[1], e[2])]],
       defense_rz |->
         [t \in present |->
            LET e == RzLevel(pf[t].def)
            IN  [rz_drives_faced |-> e[2], rz_tds_allowed |-> e[1],
                 rz_td_allow_rate |-> Rate(e[1], e[2])]],
       offense_all |->
         [t \in present |->
            LET e == AllLevel(pf[t].off)
            IN  [total_drives |-> e[2], total_tds |-> e[1],
                 total_td_rate |-> Rate(e[1], e[2])]],
       defense_all |->
         [t \in present |->
            LET e == AllLevel(pf[t].def)
            IN  [total_drives_faced |-> e[2], total_tds_allowed |-> e[1],
                 total_td_allow_rate |-> Rate(e[1], e[2])]]]

WeekSnapshotInputs ==
  {WeekSnapshot(("A" :> a) @@ ("B" :> b) @@ ("C" :> c) @@ ("D" :> d)) :
     a \in WeekProfiles("A"), b \in WeekProfiles("B"),
     c \in WeekProfiles("C"), d \in WeekProfiles("D")}

\* the 2024 records: two of the teams, above the league average
WeekBaselineInputs ==
  {WeekSnapshot([t \in {"A", "C"} |-> Profile(TRUE, "high", "high")])}

WeekLeagueAverageInputs ==
  {[rz_scoring |-> 300, rz_allow |-> 300,
    all_drives_scoring |-> 200, all_drives_allow |-> 200]}

\* a season under way: week 2 played, two games of week 3 ahead, none in
\* week 4, one in week 5 listed before them
SeasonSchedule ==
  <<Game(2, "B", "A", -7), Game(5, "D", "C", 17),
    Game(3, "A", "B", 3), Game(3, "C", "D", 3)>>

\* a season that is over
PlayedSchedule == <<Game(2, "B", "A", -7)>>

ScheduleInputs ==
  {ProviderRaises, ProviderReturns(<< >>), ProviderReturns(SeasonSchedule),
   ProviderReturns(PlayedSchedule)}

PbpInputs == {PbpRaises, PbpReturns(0), PbpReturns(2)}

WeekNumInputs == {None, Some(2), Some(3), Some(4)}

\* at most one analysis of a week of n games raises inside
\* calculate_matchup_boosts
FaultInputs(n) ==
  {{}} \cup {{<<i, side>>} : i \in 1..n, side \in {"away", "home"}}

\* the outcomes of a provider call that is made; one that is not made has
\* no outcome to choose
IfCalled(called, outcomes) == IF called THEN outcomes ELSE {CHOOSE x \in outcomes : TRUE}

week_load_data ==
  load_data_from(WeekLeagueAverageInputs, WeekBaselineInputs,
                 WeekSnapshotInputs, ScheduleInputs)

\* always reloading, whatever data_loaded says
LoadOutcomesEager(loads) == loads

\* if not self.data_loaded: self.load_data(); on a loaded calculator nothing
\* is fetched and nothing changes
LoadOutcomes(loads) ==
  IF data_loaded
  THEN {[league_averages |-> league_averages, baselines_2024 |-> baselines_2024,
         current_data |-> current_data, raised |-> FALSE,
         schedule_data |-> schedule_data, schedule_fetches |-> << >>]}
  ELSE loads

\* what provider_log holds after a call that resolves a week (None after
\* the other calls)
WeekLog(op, week_num, schedule_fetches, pbp_fetches) ==
  [schedule_fetches |-> schedule_fetches, week_num |-> week_num, pbp_fetches |-> pbp_fetches,
   op |-> op]

\* calculator.analyze_week_matchups(week_num)
AnalyzeWeekMatchups(week_num) ==
  \E o \in LoadOutcomes(week_load_data) :
  \E schedule \in IfCalled(~o.raised /\ o.schedule_data = None, ScheduleInputs),
     pbp \in IfCalled(~o.raised /\ week_num = None, PbpInputs),
     pbp_again \in IfCalled(~o.raised /\ week_num \in {None, Some(0)}, PbpInputs) :
  \E faults \in IfCalled(~o.raised,
                   FaultInputs(Len(get_week_matchups(o.schedule_data, week_num,
                                                     schedule, pbp).matchups))) :
    /\ league_averages' = o.league_averages
    /\ baselines_2024' = o.baselines_2024
    /\ current_data' = o.current_data
    /\ data_loaded' = ~o.raised
    /\ IF o.raised
       THEN /\ results' = week_error(week_num)
            /\ schedule_data' = o.schedule_data
            /\ provider_log' = WeekLog("analyze_week_matchups", week_num,
                                       o.schedule_fetches, << >>)
       ELSE LET r == analyze_week_matchups(o.league_averages, o.current_data,
                                           o.schedule_data, week_num, schedule,
                                           pbp, pbp_again, faults)
            IN  /\ results' = r.results
                /\ schedule_data' = r.schedule_data
                /\ provider_log' =
                     WeekLog("analyze_week_matchups", week_num,
                             o.schedule_fetches \o r.schedule_fetches,
                             r.pbp_fetches)
    /\ UNCHANGED <<df, raised, environ, response, threads>>

\* calculator.get_team_summary(team)
GetTeamSummary(team) ==
  \E o \in LoadOutcomes(week_load_data) :
    /\ league_averages' = o.league_averages
    /\ baselines_2024' = o.baselines_2024
    /\ current_data' = o.current_data
    /\ schedule_data' = o.schedule_data
    /\ data_loaded' = ~o.raised
    /\ results' = IF o.raised THEN summary_error(team)
                  ELSE get_team_summary(o.current_data, o.baselines_2024, team)
    /\ provider_log' = None
    /\ UNCHANGED <<df, raised, environ, response, threads>>

\* calculator.get_current_week()
GetCurrentWeek ==
  \E pbp \in PbpInputs :
    /\ results' = [current_week |-> get_current_week(schedule_data, pbp)]
    /\ provider_log' = WeekLog("get_current_week", None, << >>, <<pbp>>)
    /\ UNCHANGED <<df, league_averages, baselines_2024, current_data, raised,
                   data_loaded, schedule_data, environ, response, threads>>

NextWeek ==
  \/ \E week_num \in WeekNumInputs : AnalyzeWeekMatchups(week_num)
  \/ \E team \in WeekTeams : GetTeamSummary(team)
  \/ \E o \in Teams, d \in Teams :
       CalculateMatchupBoostsOn(week_load_data, o, d)
  \/ GetCurrentWeek

SpecWeek == Init /\ [][NextWeek]_vars

\* ------------------------------------------------------------------------
\* The HTTP endpoints: each sets environment variables, calls run_analysis
\* and restores them
\* ------------------------------------------------------------------------

\* a text with an embedded null byte: os.environ refuses to store it
NulText == "NUL"

Storable(value) == value # NulText

\* str.upper() on the texts used
upper(text) == IF text = "a" THEN "A" ELSE text

\* str(n) for the week numbers used
str(n) == CASE n = 3 -> "3" [] n = 7 -> "7"

\* int(text) for the decimal texts used: None stands for the ValueError
int(text) ==
  CASE text = "2024" -> Some(2024) [] text = "2025" -> Some(2025)
    [] text = "3" -> Some(3) [] text = "7" -> Some(7)
    [] OTHER -> None

\* os.getenv(key, default)
getenv(env, key, default) == IF env[key] = None THEN default ELSE env[key][1]

\* data_loaded of a calculator right after __init__
NewCalculatorDataLoaded == FALSE

\* a constructor that accepts every year
new_calculator_any_year(performance_year) ==
  [raised |-> FALSE, data_loaded |-> NewCalculatorDataLoaded]

\* NFLTDBoostCalculator(performance_year): the ValueError for 2024 is raised
\* before any attribute is assigned; otherwise the object starts unloaded
new_calculator(performance_year) ==
  [raised |-> (performance_year = 2024), data_loaded |-> NewCalculatorDataLoaded]

\* run_analysis under environment env: None when int() or the constructor
\* raises, and None again when the new calculator has no data loaded; the
\* analysis itself comes after that test
run_analysis(env) ==
  LET performance_year == int(getenv(env, "PERFORMANCE_YEAR", "2025"))
  IN  IF performance_year = None THEN None
      ELSE IF new_calculator(performance_year[1]).raised THEN None
      ELSE IF ~new_calculator(performance_year[1]).data_loaded THEN None
      ELSE Some([analysis_type |-> getenv(env, "ANALYSIS_TYPE", "week")])

\* what provider_log holds after run_analysis: the year it parsed, whether
\* a calculator was constructed, and the provider fetches made (no method
\* that fetches is reached before the data_loaded test returns)
run_analysis_log(env) ==
  LET performance_year == int(getenv(env, "PERFORMANCE_YEAR", "2025"))
  IN  [schedule_fetches |-> << >>,
       pbp_fetches |-> << >>,
       performance_year |-> performance_year,
       op |-> "run_analysis",
       constructed |-> /\ performance_year # None
                       /\ ~new_calculator(performance_year[1]).raised]

\* the loop that saves and sets: env_vars is the sequence of <<key, value>>
\* in insertion order; an unstorable value raises after its original was
\* saved and the earlier keys were set
RECURSIVE set_environ(_, _, _)
set_environ(env, env_vars, original_env) ==
  IF env_vars = << >>
  THEN [raised |-> FALSE, environ |-> env, original_env |-> original_env]
  ELSE LET key == Head(env_vars)[1]
           value == Head(env_vars)[2]
           saved == (key :> env[key]) @@ original_env
       IN  IF ~Storable(value)
           THEN [raised |-> TRUE, environ |-> env, original_env |-> saved]
           ELSE set_environ([env EXCEPT ![key] = Some(value)], Tail(env_vars),
                            saved)

\* the finally block: pop a key that was absent, reassign one that was set
restore_environ(env, original_env) ==
  [key \in DOMAIN env |->
     IF key \in DOMAIN original_env THEN original_env[key] ELSE env[key]]

\* jsonify(...), status
Respond(request, status, error) ==
  [request |-> request, status |-> status, error |-> error]

\* the common body of the three endpoints for the given env_vars
Endpoint(request, env_vars) ==
  LET set == set_environ(environ, env_vars, EmptyDict)
  IN  /\ IF set.raised
         THEN /\ environ' = set.environ
              /\ provider_log' = None
              /\ response' = Respond(request, 500, Some("Unexpected error"))
         ELSE /\ environ' = restore_environ(set.environ, set.original_env)
              /\ provider_log' = run_analysis_log(set.environ)
              /\ response' =
                   IF run_analysis(set.environ) = None
                   THEN Respond(request, 500, Some("Analysis failed"))
                   ELSE Respond(request, 200, None)
      /\ UNCHANGED <<df, league_averages, baselines_2024, current_data, raised,
                     data_loaded, results, schedule_data, threads>>

\* the request values and the env_vars dict built by get_td_boost, in
\* insertion order; week and team are added only when given
td_boost_request(week, team, performance_year, analysis_type) ==
  [env_vars |->
     <<<<"PERFORMANCE_YEAR", performance_year>>,
       <<"ANALYSIS_TYPE", analysis_type>>>>
     \o (IF week # "" THEN <<<<"TARGET_WEEK", week>>>> ELSE << >>)
     \o (IF team # "" THEN <<<<"TARGET_TEAM", upper(team)>>>> ELSE << >>),
   request |-> [week |-> week, team |-> team,
                performance_year |-> performance_year, path |-> "/td-boost", type |-> analysis_type]]

\* the request values and the env_vars dict built by get_week_td_boost
week_td_boost_request(week_num, performance_year) ==
  [env_vars |->
     <<<<"PERFORMANCE_YEAR", performance_year>>,
       <<"TARGET_WEEK", str(week_num)>>,
       <<"ANALYSIS_TYPE", "week">>>>,
   request |-> [week |-> str(week_num),
                team |-> "",
                performance_year |-> performance_year, path |-> "/td-boost/week", type |-> "week"]]

\* the request values and the env_vars dict built by get_team_td_boost
team_td_boost_request(team, performance_year) ==
  [env_vars |->
     <<<<"PERFORMANCE_YEAR", performance_year>>,
       <<"TARGET_TEAM", upper(team)>>,
       <<"ANALYSIS_TYPE", "team">>>>,
   request |-> [week |-> "",
                team |-> team,
                performance_year |-> performance_year, path |-> "/td-boost/team", type |-> "team"]]

\* GET /td-boost?week=&team=&performance_year=&type=
get_td_boost(week, team, performance_year, analysis_type) ==
  Endpoint(td_boost_request(week, team, performance_year, analysis_type).request,
           td_boost_request(week, team, performance_year, analysis_type).env_vars)

\* GET /td-boost/week/<int:week_num>?performance_year=
get_week_td_boost(week_num, performance_year) ==
  Endpoint(week_td_boost_request(week_num, performance_year).request,
           week_td_boost_request(week_num, performance_year).env_vars)

\* GET /td-boost/team/<team>?performance_year=
get_team_td_boost(team, performance_year) ==
  Endpoint(team_td_boost_request(team, performance_year).request,
           team_td_boost_request(team, performance_year).env_vars)

\* the query and path values of a request; "" is a parameter left out
YearInputs == {"2025", "2024", NulText}

WeekInputs == {"", "3", NulText}

TeamInputs == {"", "a", NulText}

TypeInputs == {"week", "team"}

\* the process may start with any of the variables already set
InitHttp ==
  /\ Constructed
  /\ environ \in [EnvNames -> {None, Some("7")}]
  /\ threads = [t \in ThreadIds |-> IdleThread]

NextHttp ==
  \/ \E week \in WeekInputs, team \in TeamInputs, year \in YearInputs,
        type \in TypeInputs : get_td_boost(week, team, year, type)
  \/ \E year \in YearInputs : get_week_td_boost(3, year)
  \/ \E team \in TeamInputs \ {""}, year \in YearInputs :
       get_team_td_boost(team, year)

SpecHttp == InitHttp /\ [][NextHttp]_vars

\* ------------------------------------------------------------------------
\* The endpoints under app.run: each request is handled by a worker thread
\* and all threads share os.environ.  A handler is taken in its steps: one
\* pass of the save-and-set loop, the call of run_analysis, one pass of the
\* restoring loop.  A thread switch can occur between any two steps.
\* ------------------------------------------------------------------------

\* the requests a worker thread may be given
ThreadRequests ==
  {week_td_boost_request(3, "2025"),
   team_td_boost_request("a", "2025"),
   td_boost_request("", "", "2024", "week"),
   td_boost_request(NulText, "", "2025", "week")}

\* the four values run_analysis reads with os.getenv
getenv_values(env) ==
  [performance_year |-> getenv(env, "PERFORMANCE_YEAR", "2025"),
   analysis_type |-> getenv(env, "ANALYSIS_TYPE", "week"),
   target_team |-> env["TARGET_TEAM"],
   target_week |-> env["TARGET_WEEK"]]

\* a worker thread enters a handler: request.args are read and env_vars and
\* the empty original_env are built
BeginRequest(t, call) ==
  /\ threads[t].pc = "idle"
  /\ threads' = [threads EXCEPT ![t] =
       [env_vars |-> call.env_vars, original_env |-> << >>, pc |-> "set",
        request |-> call.request, seen |-> None, status |-> 0]]
  /\ UNCHANGED <<df, league_averages, baselines_2024, current_data, raised,
                 data_loaded, results, schedule_data, provider_log, environ,
                 response>>

\* one pass of the loop that saves the shared variable and sets it; an
\* unstorable value raises to the outer except, which answers 500 with no
\* restoring
SetEnviron(t) ==
  /\ threads[t].pc = "set"
  /\ LET key == Head(threads[t].env_vars)[1]
         value == Head(threads[t].env_vars)[2]
         rest == Tail(threads[t].env_vars)
         saved == Append(threads[t].original_env, <<key, environ[key]>>)
     IN  IF ~Storable(value)
         THEN /\ environ' = environ
              /\ threads' = [threads EXCEPT ![t].original_env = saved,
                                            ![t].pc = "done",
                                            ![t].status = 500]
         ELSE /\ environ' = [environ EXCEPT ![key] = Some(value)]
              /\ threads' = [threads EXCEPT
                   ![t].env_vars = rest,
                   ![t].original_env = saved,
                   ![t].pc = IF rest = << >> THEN "run" ELSE "set"]
  /\ UNCHANGED <<df, league_averages, baselines_2024, current_data, raised,
                 data_loaded, results, schedule_data, provider_log, response>>

\* results = run_analysis(): the four variables are read from the shared
\* environment as it is at the call
RunAnalysis(t) ==
  /\ threads[t].pc = "run"
  /\ threads' = [threads EXCEPT
       ![t].seen = Some(getenv_values(environ)),
       ![t].status = IF run_analysis(environ) = None THEN 500 ELSE 200,
       ![t].pc = "restore"]
  /\ UNCHANGED <<df, league_averages, baselines_2024, current_data, raised,
                 data_loaded, results, schedule_data, provider_log, environ,
                 response>>

\* one pass of the finally loop: a key saved as absent is popped, any other
\* is assigned the saved value
RestoreEnviron(t) ==
  /\ threads[t].pc = "restore"
  /\ LET key == Head(threads[t].original_env)[1]
         original_value == Head(threads[t].original_env)[2]
         rest == Tail(threads[t].original_env)
     IN  /\ environ' = [environ EXCEPT ![key] = original_value]
         /\ threads' = [threads EXCEPT
              ![t].original_env = rest,
              ![t].pc = IF rest = << >> THEN "done" ELSE "restore"]
  /\ UNCHANGED <<df, league_averages, baselines_2024, current_data, raised,
                 data_loaded, results, schedule_data, provider_log, response>>

NextThreads ==
  \/ \E t \in ThreadIds, call \in ThreadRequests : BeginRequest(t, call)
  \/ \E t \in ThreadIds : SetEnviron(t)
  \/ \E t \in ThreadIds : RunAnalysis(t)
  \/ \E t \in ThreadIds : RestoreEnviron(t)

SpecThreads == Init /\ [][NextThreads]_vars

\* the request had a known performance year and only storable values
ValidRequest(request) ==
  /\ request.performance_year = "2025"
  /\ Storable(request.week)
  /\ Storable(request.team)

\* C14: a request with valid parameters is answered 200; 500 with an error
\* is the answer only when the analysis failed.
C14_ValidRequestAnswered200 ==
  (DOMAIN response # {} /\ ValidRequest(response.request))
    => (response.status = 200 /\ response.error = None)

\* C20: a request leaves each of PERFORMANCE_YEAR, ANALYSIS_TYPE,
\* TARGET_WEEK and TARGET_TEAM with the value, or the absence, it had before
\* the request, whatever the response.
C20_RequestRestoresEnvironment == [][environ' = environ]_vars

\* ------------------------------------------------------------------------
\* The market blender (spec section 4.5, steps 3 to 5).  Points and
\* touchdowns are integers in hundredths, the advantage in tenths of a
\* percent as everywhere.
\* ------------------------------------------------------------------------

\* touchdown points = implied points x 0.75; implied touchdowns = touchdown
\* points / 7, rounded to 2 decimals
implied_touchdowns(implied_points) == RoundDiv(3 * implied_points, 28)

\* the advantage applied as it comes, without the cap
advantage_uncapped(advantage_pct) == advantage_pct

\* clamp(total_team_td_advantage_pct / 100, -0.30, +0.30), kept in tenths
\* of a percent
advantage_fraction(advantage_pct) ==
  IF advantage_pct > 300 THEN 300
  ELSE IF advantage_pct < -300 THEN -300
  ELSE advantage_pct

\* implied touchdowns x (1 + 0.25 x advantage fraction), rounded to 2
\* decimals
projected_touchdowns(implied, advantage_pct) ==
  RoundDiv(implied * (4000 + advantage_fraction(advantage_pct)), 4000)

\* the projected result of one team in one game
projected_result(implied_points, advantage_pct) ==
  [total_team_td_advantage_pct |-> advantage_pct,
   implied_touchdowns |-> implied_touchdowns(implied_points),
   advantage_pct |-> advantage_fraction(advantage_pct),
   projected_touchdowns |->
     projected_touchdowns(implied_touchdowns(implied_points), advantage_pct)]

\* implied points of a side, 14.00 to 30.00 and 23.33 (2.50 touchdowns)
ImpliedPointInputs == {1400 + 200 * k : k \in 0..8} \cup {2333}

\* raw total advantages, beyond the cap on both sides
AdvantageInputs ==
  {-500, -400, -300, -200, -125, -50, 0, 50, 125, 200, 300, 450}

BlendTeam(implied_points, advantage_pct) ==
  /\ results' = projected_result(implied_points, advantage_pct)
  /\ UNCHANGED <<df, league_averages, baselines_2024, current_data, raised,
                 data_loaded, schedule_data, provider_log, environ, response, threads>>

NextBlend ==
  \E implied_points \in ImpliedPointInputs, advantage_pct \in AdvantageInputs :
    BlendTeam(implied_points, advantage_pct)

SpecBlend == Init /\ [][NextBlend]_vars

Blended == DOMAIN results # {}

\* C17 as stated: projected touchdowns are exactly implied x (1 + 0.25 x f)
\* with f the advantage clamped to +-30%, and lie within
\* implied x [0.925, 1.075].
C17_ProjectedAsStated ==
  Blended =>
    LET f == IF results.total_team_td_advantage_pct > 300 THEN 300
             ELSE IF results.total_team_td_advantage_pct < -300 THEN -300
             ELSE results.total_team_td_advantage_pct
    IN  /\ 4000 * results.projected_touchdowns
             = results.implied_touchdowns * (4000 + f)
        /\ 1000 * results.projected_touchdowns >= 925 * results.implied_touchdowns
        /\ 1000 * results.projected_touchdowns <= 1075 * results.implied_touchdowns

\* C17 amended: projected touchdowns are implied x (1 + 0.25 x f) rounded
\* to 2 decimals (within 0.005 of it), f the advantage clamped to +-30%, so
\* they lie within 0.005 of implied x [0.925, 1.075].
C17_ProjectedAmended ==
  Blended =>
    LET f == IF results.total_team_td_advantage_pct > 300 THEN 300
             ELSE IF results.total_team_td_advantage_pct < -300 THEN -300
             ELSE results.total_team_td_advantage_pct
        exact == results.implied_touchdowns * (4000 + f)
    IN  /\ 4000 * results.projected_touchdowns - exact <= 2000
        /\ exact - 4000 * results.projected_touchdowns <= 2000
        /\ 1000 * results.projected_touchdowns
             >= 925 * results.implied_touchdowns - 500
        /\ 1000 * results.projected_touchdowns
             <= 1075 * results.implied_touchdowns + 500

\* a raw advantage of 45% applied as 30% to 2.50 implied touchdowns:
\* 2.6875, carried as 2.69
C17_Witness ==
  /\ Blended
  /\ results.total_team_td_advantage_pct = 450
  /\ results.advantage_pct = 300
  /\ results.implied_touchdowns = 250
  /\ results.projected_touchdowns = 269

\* ------------------------------------------------------------------------
\* Properties of calculate_matchup_boosts
\* ------------------------------------------------------------------------

Called == DOMAIN results # {}

\* the last call returned an analysis, not the error dict
Analysed == Called /\ results.error = None

Abs(x) == IF x < 0 THEN 0 - x ELSE x

DefRzPct == results.red_zone.defense_rz_pct_change_vs_league

DefAllPct == results.all_drives.defense_all_drives_pct_change_vs_league

OffRzPct == results.red_zone.offense_rz_pct_change_vs_league

OffAllPct == results.all_drives.offense_all_drives_pct_change_vs_league

OffCombined == results.combined_team_analysis.offense_combined_pct_change

DefCombined == results.combined_team_analysis.defense_combined_pct_change

TotalAdvantage == results.combined_team_analysis.total_team_td_advantage_pct

\* C1: defense_combined_pct_change is the negated combination of the two
\* defense deviations: both +d (d > 0) give -d, and a single present
\* deviation is negated too.
C1_DefenseCombinedNegated ==
  Analysed =>
    /\ (DefRzPct # None /\ DefAllPct # None /\ DefRzPct = DefAllPct
          /\ DefRzPct[1] > 0)
         => DefCombined = Some(0 - DefRzPct[1])
    /\ (DefRzPct # None /\ DefAllPct = None)
         => DefCombined = Some(0 - DefRzPct[1])
    /\ (DefRzPct = None /\ DefAllPct # None)
         => DefCombined = Some(0 - DefAllPct[1])

\* C2: with exactly one of the combined values present the total advantage
\* is that value itself; with both it is their average rounded to a tenth.
C2_SingleSidedTotalIsDirect ==
  Analysed =>
    /\ (OffCombined # None /\ DefCombined = None) => TotalAdvantage = OffCombined
    /\ (OffCombined = None /\ DefCombined # None) => TotalAdvantage = DefCombined
    /\ (OffCombined # None /\ DefCombined # None)
         => /\ TotalAdvantage # None
            /\ Abs(2 * TotalAdvantage[1] - (OffCombined[1] + DefCombined[1])) <= 1

\* largest drive count of the allow rates compared in C3
MaxDrives == 4

AllowRates == {Rate(tds, drives) : tds \in 0..MaxDrives, drives \in 1..MaxDrives}
                 \cap (0..1000)

\* a <= b on nullable numbers of equal presence
NullableLeq(a, b) ==
  IF a = None \/ b = None THEN a = None /\ b = None ELSE a[1] <= b[1]

\* the total advantage of the last matchup had the defense's entry of one
\* family carried the allow rate r
TotalWithAllowRate(family, rateField, r) ==
  LET d == results.defense_team
      cd == [current_data EXCEPT ![family] =
               [current_data[family] EXCEPT ![d] =
                  [current_data[family][d] EXCEPT ![rateField] = r]]]
  IN  matchup_boosts(league_averages, cd, results.offense_team, d)
        .combined_team_analysis.total_team_td_advantage_pct

\* C3: for a fixed offense and fixed league averages the total advantage
\* never decreases when the defense's red-zone or all-drives allow rate
\* increases, whichever families are present.
C3_TotalMonotoneInAllowRate ==
  Analysed =>
    /\ results.defense_team \in DOMAIN current_data.defense_rz =>
         \A r \in AllowRates :
           r >= current_data.defense_rz[results.defense_team].rz_td_allow_rate
             => NullableLeq(TotalAdvantage,
                            TotalWithAllowRate("defense_rz", "rz_td_allow_rate", r))
    /\ results.defense_team \in DOMAIN current_data.defense_all =>
         \A r \in AllowRates :
           r >= current_data.defense_all[results.defense_team].total_td_allow_rate
             => NullableLeq(TotalAdvantage,
                            TotalWithAllowRate("defense_all", "total_td_allow_rate", r))

\* a matchup whose total strictly grows with a higher red-zone allow rate
C3_Witness ==
  /\ Analysed
  /\ results.defense_team \in DOMAIN current_data.defense_rz
  /\ OffCombined # None
  /\ \E r \in AllowRates :
       /\ r > current_data.defense_rz[results.defense_team].rz_td_allow_rate
       /\ TotalWithAllowRate("defense_rz", "rz_td_allow_rate", r)[1] > TotalAdvantage[1]

\* the four family blocks of the last analysis: deviation, team looked up,
\* per-team record and league average
FamilyViews ==
  {[team |-> results.offense_team, family |-> current_data.offense_rz,
    data |-> "RZ", rate |-> "rz_td_rate",
    pct |-> OffRzPct, avg |-> league_averages.rz_scoring],
   [team |-> results.defense_team, family |-> current_data.defense_rz,
    data |-> "RZ", rate |-> "rz_td_allow_rate",
    pct |-> DefRzPct, avg |-> league_averages.rz_allow],
   [team |-> results.offense_team, family |-> current_data.offense_all,
    data |-> "all drives", rate |-> "total_td_rate",
    pct |-> OffAllPct, avg |-> league_averages.all_drives_scoring],
   [team |-> results.defense_team, family |-> current_data.defense_all,
    data |-> "all drives", rate |-> "total_td_allow_rate",
    pct |-> DefAllPct, avg |-> league_averages.all_drives_allow]}

\* f.pct is (current - avg) / avg x 100 to the nearest tenth
NearestTenth(f) ==
  /\ f.pct # None
  /\ 2 * Abs(f.pct[1] * f.avg - 1000 * (f.family[f.team][f.rate] - f.avg)) <= f.avg

\* C7 as stated: null when the league average is > 0 and the team has no
\* entry; 0 whenever the league average is 0; otherwise the rounded
\* relative deviation.
C7_DeviationAsStated ==
  Analysed =>
    \A f \in FamilyViews :
      /\ (f.avg > 0 /\ f.team \notin DOMAIN f.family) => f.pct = None
      /\ f.avg = 0 => f.pct = Some(0)
      /\ (f.avg > 0 /\ f.team \in DOMAIN f.family) => NearestTenth(f)

\* C7 amended: the deviation is null whenever the team has no entry,
\* whatever the league average; for a team with an entry it is 0 when the
\* league average is 0 and otherwise the relative deviation rounded to a
\* tenth.
C7_DeviationAmended ==
  Analysed =>
    \A f \in FamilyViews :
      /\ f.team \notin DOMAIN f.family => f.pct = None
      /\ (f.avg = 0 /\ f.team \in DOMAIN f.family) => f.pct = Some(0)
      /\ (f.avg > 0 /\ f.team \in DOMAIN f.family) => NearestTenth(f)

\* one analysis with a missing team under a zero league average, a present
\* team under a zero league average and a non-zero rounded deviation
C7_Witness ==
  /\ Analysed
  /\ \E f \in FamilyViews : f.avg = 0 /\ f.team \notin DOMAIN f.family
  /\ \E f \in FamilyViews : f.avg = 0 /\ f.team \in DOMAIN f.family
  /\ \E f \in FamilyViews :
       f.avg > 0 /\ f.team \in DOMAIN f.family /\ f.pct # None /\ f.pct[1] = 667

\* C8: on a loaded snapshot calculate_matchup_boosts returns an analysis
\* for every pair of teams; an absent family's deviation is null, a
\* combined value is null exactly when both of its deviations are, and the
\* total is null exactly when all four deviations are.
C8_MissingTeamsDegradeToNull ==
  (Called /\ data_loaded) =>
    /\ results.error = None
    /\ \A f \in FamilyViews : f.team \notin DOMAIN f.family <=> f.pct = None
    /\ OffCombined = None <=> (OffRzPct = None /\ OffAllPct = None)
    /\ DefCombined = None <=> (DefRzPct = None /\ DefAllPct = None)
    /\ TotalAdvantage = None <=>
         (OffRzPct = None /\ OffAllPct = None /\ DefRzPct = None /\ DefAllPct = None)

\* the offense team is in no family, the defense team in one: the total is
\* still a number
C8_Witness ==
  /\ Called /\ data_loaded
  /\ results.offense_team \notin DOMAIN current_data.offense_rz
  /\ results.offense_team \notin DOMAIN current_data.offense_all
  /\ results.defense_team \in DOMAIN current_data.defense_rz
  /\ results.defense_team \notin DOMAIN current_data.defense_all
  /\ OffCombined = None
  /\ TotalAdvantage # None

\* C9: every deviation that is null because the team is missing from a
\* family comes with a note for that miss, and the other fields are still
\* computed.
C9_EveryMissHasNote ==
  Analysed =>
    \A f \in FamilyViews :
      /\ f.team \notin DOMAIN f.family =>
           results.red_zone.note = Some([team |-> f.team, data |-> f.data])
      /\ f.team \in DOMAIN f.family => f.pct # None

\* ------------------------------------------------------------------------
\* Offense and defense aggregate the same drives
\* ------------------------------------------------------------------------

\* every row has both team codes, constant within a (game, drive)
TeamCodesRegular(t) ==
  \A i \in DOMAIN t :
    /\ t[i].posteam # NA
    /\ t[i].defteam # NA
    /\ \A j \in DOMAIN t :
         (t[j].game_id = t[i].game_id /\ t[j].fixed_drive = t[i].fixed_drive)
           => (t[j].posteam = t[i].posteam /\ t[j].defteam = t[i].defteam)

\* the sum of one count over the teams of a per-team record
SumField(d, field) == SumOver(DOMAIN d, [k \in DOMAIN d |-> d[k][field]])

SnapshotBalanced(snap) ==
  /\ SumField(snap.offense_rz, "rz_drives") = SumField(snap.defense_rz, "rz_drives_faced")
  /\ SumField(snap.offense_rz, "rz_tds") = SumField(snap.defense_rz, "rz_tds_allowed")
  /\ SumField(snap.offense_all, "total_drives")
       = SumField(snap.defense_all, "total_drives_faced")
  /\ SumField(snap.offense_all, "total_tds")
       = SumField(snap.defense_all, "total_tds_allowed")

\* C18: on a table whose rows all carry both team codes, constant within a
\* (game, drive), the drive counts and the touchdown counts summed over the
\* offense teams equal those summed over the defense teams, in red-zone and
\* in all-drives mode.
C18_OffenseDefenseSameDrives ==
  TeamCodesRegular(df) =>
    /\ DOMAIN baselines_2024 # {} => SnapshotBalanced(baselines_2024)
    /\ DOMAIN current_data # {} => SnapshotBalanced(current_data)

\* a table with a retained red-zone drive that scored and a second drive
\* the red-zone filter drops
C18_Witness ==
  /\ TeamCodesRegular(df)
  /\ DOMAIN current_data # {}
  /\ SumField(current_data.offense_rz, "rz_tds") = 1
  /\ SumField(current_data.defense_rz, "rz_drives_faced") = 1
  /\ SumField(current_data.defense_all, "total_drives_faced") = 2
  /\ \E i \in DOMAIN df :
       /\ df[i].yardline_100 <= 20
       /\ \A j \in DOMAIN df \ {i} : df[j].fixed_drive # df[i].fixed_drive

\* ------------------------------------------------------------------------
\* Properties of the week analysis
\* ------------------------------------------------------------------------

\* the last call was analyze_week_matchups
WeekAnalysed ==
  /\ DOMAIN provider_log # {}
  /\ provider_log.op = "analyze_week_matchups"

\* the last call was analyze_week_matchups for a given week, the load did
\* not fail and a schedule is held
GivenWeekAnalysed ==
  /\ WeekAnalysed
  /\ data_loaded
  /\ provider_log.week_num \notin {None, Some(0)}
  /\ schedule_data # None

\* the rows of the held schedule for the given week
GivenWeekGames ==
  SelectSeq(schedule_data[1], LAMBDA g : g.week = provider_log.week_num[1])

\* C11: when the week asked for has no game in the schedule, the result of
\* analyze_week_matchups has no error and an empty games list.
C11_EmptyWeekIsNotAnError ==
  (GivenWeekAnalysed /\ GivenWeekGames = << >>)
    => (results.error = None /\ results.games = << >>)

\* the last call was get_current_week
CurrentWeekAsked ==
  /\ DOMAIN provider_log # {}
  /\ provider_log.op = "get_current_week"

\* C12: get_current_week returns the week of the next game dated today or
\* later whenever the schedule has one, whatever the play-by-play provider
\* did; otherwise the highest week with play data plus one; and the default
\* 2 only when there is neither (an empty play table may count as week 0 or
\* as no data).
C12_CurrentWeekFallbackChain ==
  CurrentWeekAsked =>
    LET pbp == provider_log.pbp_fetches[1]
        games == IF schedule_data = None THEN << >> ELSE schedule_data[1]
    IN  IF FutureGames(games) # {}
        THEN results.current_week = NextGame(games).week
        ELSE IF ~pbp.raises /\ pbp.max_week > 0
        THEN results.current_week = pbp.max_week + 1
        ELSE IF ~pbp.raises
        THEN results.current_week \in {1, 2}
        ELSE results.current_week = 2

\* the number of games of the result for the pairing of matchup m
TimesListed(m) ==
  Cardinality({i \in DOMAIN results.games :
                 /\ results.games[i].away_team = m.away_team
                 /\ results.games[i].home_team = m.home_team})

\* C13: no game of the result holds a failed analysis (a game whose
\* analysis failed is left out), every listed game is a matchup of the week
\* and no matchup is listed twice; a failure never replaces the result by
\* an error.
C13_FailedGameIsSkipped ==
  (GivenWeekAnalysed /\ GivenWeekGames # << >>) =>
    /\ results.error = None
    /\ \A i \in DOMAIN results.games :
         /\ results.games[i].away_offense_vs_home_defense.error = None
         /\ results.games[i].home_offense_vs_away_defense.error = None
    /\ \A j \in DOMAIN GivenWeekGames : TimesListed(GivenWeekGames[j]) <= 1
    /\ \A i \in DOMAIN results.games :
         \E j \in DOMAIN GivenWeekGames :
           /\ results.games[i].away_team = GivenWeekGames[j].away_team
           /\ results.games[i].home_team = GivenWeekGames[j].home_team

\* a provider outcome load_schedule cannot use
Unusable(outcome) == outcome.raises \/ outcome.games = << >>

\* C16: one analyze_week_matchups call invokes the schedule provider at
\* most once, and when that fetch fails or returns nothing usable the
\* result is an error.
C16_ScheduleFetchedOnce ==
  WeekAnalysed =>
    /\ Len(provider_log.schedule_fetches) <= 1
    /\ (/\ provider_log.schedule_fetches # << >>
        /\ Unusable(provider_log.schedule_fetches[1])) => results.error # None

\* x or -999 as the ranking means it: only null or missing goes to the floor
KeepZero(adv) == IF adv = None THEN SortFloor ELSE adv[1]

\* the advantage of one analysis, None when it is null or missing
Advantage(analysis) ==
  IF analysis.error # None THEN None
  ELSE analysis.combined_team_analysis.total_team_td_advantage_pct

\* max(away advantage, home advantage) with 0.0 ranked as 0.0
BestAdvantage(game) ==
  MaxOf({KeepZero(Advantage(game.away_offense_vs_home_defense)),
         KeepZero(Advantage(game.home_offense_vs_away_defense))})

\* C19: the games of the result are in descending order of their best
\* advantage, null or missing below every number and 0.0 counted as 0.0.
C19_GamesRankedByBestAdvantage ==
  (WeekAnalysed /\ results.error = None) =>
    \A i \in 1..(Len(results.games) - 1) :
      BestAdvantage(results.games[i]) >= BestAdvantage(results.games[i + 1])

\* ------------------------------------------------------------------------
\* The lazy load
\* ------------------------------------------------------------------------

\* league_averages and the four current_data families are assigned
Populated ==
  /\ DOMAIN league_averages =
       {"rz_scoring", "rz_allow", "all_drives_scoring", "all_drives_allow"}
  /\ DOMAIN current_data =
       {"offense_rz", "defense_rz", "offense_all", "defense_all"}

\* the last call was one of calculate_matchup_boosts, analyze_week_matchups
\* and get_team_summary
LoadingCall == DOMAIN results # {} /\ "current_week" \notin DOMAIN results

\* C15: data_loaded is true only with league_averages and the four
\* current_data families assigned; a call on a loaded calculator leaves
\* data_loaded true and the loaded data as it was (load_data is not called
\* again); a call on an unloaded calculator calls load_data: it ends loaded,
\* or else returns an error and stays unloaded for the next call.
C15_LazyLoadProtocol ==
  /\ [](data_loaded => Populated)
  /\ [][data_loaded =>
          (/\ data_loaded'
           /\ UNCHANGED <<league_averages, baselines_2024, current_data>>)]_vars
  /\ [][(~data_loaded /\ LoadingCall') =>
          (data_loaded' \/ results'.error # None)]_vars

\* analyze_week_matchups returned an analysis without fetching a schedule:
\* it ran on a calculator an earlier call had loaded
C15_Witness ==
  /\ WeekAnalysed
  /\ data_loaded
  /\ provider_log.schedule_fetches = << >>
  /\ results.error = None
  /\ results.games # << >>

\* ------------------------------------------------------------------------
\* Performance year 2024
\* ------------------------------------------------------------------------

\* the last request carried performance_year=2024 and reached run_analysis
Asked2024 ==
  /\ DOMAIN response # {}
  /\ response.request.performance_year = "2024"
  /\ DOMAIN provider_log # {}

\* C22: a request with performance_year=2024 is answered 500 with an error;
\* no calculator is constructed for it (the constructor raises) and no
\* provider is fetched.
C22_Year2024NeverAnalysed ==
  Asked2024 =>
    /\ response.status = 500
    /\ response.error # None
    /\ provider_log.performance_year = Some(2024)
    /\ ~provider_log.constructed
    /\ provider_log.schedule_fetches = << >>
    /\ provider_log.pbp_fetches = << >>
    /\ Untouched
    /\ ~data_loaded

\* GET /td-boost/team/a?performance_year=2024 answered "Analysis failed"
C22_Witness ==
  /\ Asked2024
  /\ response.request.path = "/td-boost/team"
  /\ response.error = Some("Analysis failed")
  /\ ~provider_log.constructed


\* ------------------------------------------------------------------------
\* Overlapping requests
\* ------------------------------------------------------------------------

\* the values of the four variables that belong to a request, over an
\* environment that had none of them set
OwnParameters(request) ==
  [performance_year |-> request.performance_year,
   analysis_type |-> request.type,
   target_team |-> IF request.team = "" THEN None
                   ELSE Some(upper(request.team)),
   target_week |-> IF request.week = "" THEN None ELSE Some(request.week)]

\* both threads handle a request, the two requests differ and every value
\* of both can be stored in the environment
TwoStorableRequests ==
  /\ \A t \in ThreadIds :
       /\ threads[t].pc # "idle"
       /\ Storable(threads[t].request.week)
       /\ Storable(threads[t].request.team)
       /\ Storable(threads[t].request.performance_year)
  /\ threads[1].request # threads[2].request

\* each thread that has called run_analysis read its own request's values
C21_ReadsOwnParameters ==
  TwoStorableRequests =>
    \A t \in ThreadIds :
      threads[t].seen # None =>
        threads[t].seen[1] = OwnParameters(threads[t].request)

\* once both requests have completed the environment is as it started
C21_EnvironmentRestored ==
  (TwoStorableRequests /\ \A t \in ThreadIds : threads[t].pc = "done") =>
    environ = [k \in EnvNames |-> None]

\* C21: when two requests with different parameters are handled by
\* interleaved threads, the run_analysis of each reads the performance year,
\* analysis type, week and team of its own request, and once both requests
\* have completed the four environment variables are back at their values
\* from before either request started (all unset).
C21_OverlappingRequestsIsolated ==
  /\ C21_ReadsOwnParameters
  /\ C21_EnvironmentRestored

====
